---------------------------- MODULE Spec2Model ----------------------------
(***************************************************************************)
(* TRMNL running dashboard API: the Strava client (strava_client.py), the  *)
(* calculation layer (utils.py) and the two HTTP handlers                  *)
(* (function_app.py), as state machines.                                   *)
(*                                                                         *)
(* Spec        one HTTP request (/running-data or /nutrition-data) handled *)
(*             from arrival to response, the upstream services answering   *)
(*             each outbound call in every possible way.                   *)
(* SpecClient  one StravaClient object on which get_activities is called   *)
(*             several times in a row.                                     *)
(* SpecTarget  get_weekly_target applied to every bounded input.           *)
(* SpecWeeks   calculate_weeks_until_event applied to every bounded clock  *)
(*             reading and event date string.                              *)
(* SpecDays, SpecMinutes, SpecWeekStart, SpecProgress, SpecPace            *)
(*             the days parameter, seconds_to_minutes, get_week_start,     *)
(*             calculate_progress_percentage and calculate_pace, each      *)
(*             applied to every bounded input.                             *)
(* SpecNutrition                                                           *)
(*             the rollups of /nutrition-data applied to every bounded     *)
(*             list of activities.                                         *)
(***************************************************************************)
EXTENDS Integers, Sequences, FiniteSets, TLC

VARIABLES
    env,           \* process configuration read through os.getenv
    now,           \* the wall clock, datetime.now(): [ord, sec]
    req,           \* the HTTP request being handled, or NoReq
    pc,            \* position of the handler
    client,        \* the StravaClient object: [alive, access_token]
    cpc,           \* position inside StravaClient.get_activities
    call,          \* the get_activities call in progress: [start, after, per_page]
    calls,         \* number of get_activities calls begun on the client
    ret,           \* how the last get_activities call ended
    net,           \* outbound HTTP exchanges so far, oldest first
    logs,          \* logger.error lines written by the handler
    locals,        \* the handler's locals computed before the fetches
    runs,          \* the handler's local `runs`
    weather_by_date, \* the handler's local `weather_by_date`
    data,          \* the `list` of the forecast payload that was read, or <<>>
    resp,          \* the HTTP response, or NoResp
    fn_in,         \* arguments of the pure function being applied
    fn_out         \* its outcome, or Pending

vars == <<env, now, req, pc, client, cpc, call, calls, ret, net, logs, locals,
          runs, weather_by_date, data, resp, fn_in, fn_out>>

handlerVars ==
    <<env, now, req, pc, logs, locals, runs, weather_by_date, data, resp>>
clientVars  == <<client, cpc, call, calls, ret, net>>
fnVars      == <<fn_in, fn_out>>

-----------------------------------------------------------------------------
(* Bounds of the model *)

\* distinct access tokens the token endpoint may hand out
NumTokens == 2
\* get_activities calls made on one client object in SpecClient
MaxCalls == 2
\* entries of a well-formed training schedule
MaxSched == 3
\* entries of a training schedule with malformed entries
MaxBadSched == 2
\* largest weeks-until-event value tried
MaxWeeks == 15
\* an event lies at most this many days after today
MaxDaysOut == 56
\* characters of the days query parameter
MaxDaysLen == 3

\* largest number of seconds given to seconds_to_minutes
MaxSeconds == 400
\* last day number of the clock readings given to get_week_start
MaxClockDay == 20
MaxMiles == 120
\* most activities in a list given to the rollups of /nutrition-data
MaxActivities == 3

-----------------------------------------------------------------------------
(* Values *)

None    == "None"
NoReq   == [endpoint |-> "none", days |-> [present |-> FALSE, text |-> <<>>]]
NoBody  == [kind |-> "none"]
NoResp  == [status |-> 0, error |-> None, details |-> None, body |-> NoBody]
NoLocals == [kind |-> "none"]
Pending == [kind |-> "pending"]
NoRet   == [kind |-> "none", exc |-> None, feed |-> <<>>]

Tokens == 1..NumTokens

\* Outcome of a function call: a returned value, or the class of the
\* exception that left it
Raise(exc) == [kind |-> "raise", exc |-> exc, value |-> 0]
Return(v)  == [kind |-> "return", exc |-> None, value |-> v]

NoToken == 0
NoCall  == [start |-> 0, after |-> 0, per_page |-> 0]

\* An upstream answer: an HTTP status, or no answer at all (the 10 s timeout,
\* a refused connection), which requests raises as a RequestException.
Answers == {"200", "401", "500", "timeout"}

\* response.raise_for_status(): raises HTTPError for 4xx and 5xx
RaisesForStatus(answer) == answer \in {"401", "500"}

Min(a, b) == IF a < b THEN a ELSE b
Max(a, b) == IF a > b THEN a ELSE b

-----------------------------------------------------------------------------
(* Activities as the Strava API returns them (the fields the handlers read) *)

\* start_date is an ISO timestamp "YYYY-MM-DDThh:mm:ssZ": its date part, as
\* [y, m, d], and its hour
Activity(type, distance, moving_time, ymd, hour) ==
    [type |-> type, distance |-> distance, moving_time |-> moving_time,
     start_date |-> [date |-> ymd, hour |-> hour]]

Jan(d) == [y |-> 2025, m |-> 1, d |-> d]

\* Monday 6, Tuesday 7 and Wednesday 8 January 2025
Feeds ==
    { <<>>,
      <<Activity("Run", 8047, 3000, Jan(6), 7)>>,
      <<Activity("Ride", 20000, 3600, Jan(7), 18),
        Activity("Run", 5000, 1500, Jan(7), 7)>>,
      <<Activity("Run", 1609, 600, Jan(8), 7),
        Activity("Run", 3218, 1290, Jan(8), 19)>> }

-----------------------------------------------------------------------------
(* StravaClient (strava_client.py) *)

\* StravaClient.__init__ with all three credentials present
NewClient == [alive |-> TRUE, access_token |-> NoToken]

Exchange(kind, token, after, answer) ==
    [kind |-> kind, token |-> token, after |-> after, answer |-> answer]

\* RefreshAccessToken, were a failed refresh logged and get_activities to
\* carry on with the token it has
RefreshAccessTokenQuiet(answer, tok, ok) ==
    /\ net' = Append(net, Exchange("token",
                                   IF answer # "timeout" /\ ~RaisesForStatus(answer)
                                   THEN tok ELSE NoToken, 0, answer))
    /\ client' = IF answer # "timeout" /\ ~RaisesForStatus(answer)
                 THEN [client EXCEPT !.access_token = tok] ELSE client
    /\ cpc' = ok
    /\ UNCHANGED ret

\* refresh_access_token: one POST to the token endpoint, which answers with the
\* access token tok when it answers 200.  `ok` is the position get_activities
\* continues at when the token was stored.
RefreshAccessToken(answer, tok, ok) ==
    /\ net' = Append(net, Exchange("token",
                                   IF answer # "timeout" /\ ~RaisesForStatus(answer)
                                   THEN tok ELSE NoToken, 0, answer))
    /\ IF answer # "timeout" /\ ~RaisesForStatus(answer)
       THEN /\ client' = [client EXCEPT !.access_token = tok]
            /\ cpc' = ok
            /\ UNCHANGED ret
       ELSE /\ cpc' = "raised"
            /\ ret' = [kind |-> "raise", exc |-> "Strava token refresh failed",
                       feed |-> <<>>]
            /\ UNCHANGED client

\* get_activities, entry: authenticate lazily, build the query
GetActivitiesBegin(after, per_page) ==
    /\ call' = [start |-> Len(net), after |-> after,
                per_page |-> Min(per_page, 200)]
    /\ calls' = calls + 1
    /\ ret' = NoRet
    /\ cpc' = IF client.access_token = NoToken THEN "refresh" ELSE "get"

\* get_activities, `if not self.access_token: self.refresh_access_token()`
LazyRefresh ==
    /\ cpc = "refresh"
    /\ \E answer \in Answers, tok \in Tokens :
           RefreshAccessToken(answer, tok, "get")
    /\ UNCHANGED <<call, calls, handlerVars, fnVars>>

ActivitiesExchange(answer) ==
    Exchange("activities", client.access_token, call.after, answer)

\* get_activities, the first requests.get
FirstGet ==
    /\ cpc = "get"
    /\ \E answer \in Answers, feed \in Feeds :
        /\ net' = Append(net, ActivitiesExchange(answer))
        /\ CASE answer = "401" ->
                  /\ cpc' = "refresh401"
                  /\ UNCHANGED ret
             [] answer # "timeout" /\ ~RaisesForStatus(answer) ->
                  /\ cpc' = "returned"
                  /\ ret' = [kind |-> "return", exc |-> None, feed |-> feed]
             [] OTHER ->
                  /\ cpc' = "raised"
                  /\ ret' = [kind |-> "raise",
                             exc |-> "Strava API request failed",
                             feed |-> <<>>]
    /\ UNCHANGED <<client, call, calls, handlerVars, fnVars>>

\* get_activities, `if response.status_code == 401: self.refresh_access_token()`
RefreshAfter401 ==
    /\ cpc = "refresh401"
    /\ \E answer \in Answers, tok \in Tokens :
           RefreshAccessToken(answer, tok, "retry")
    /\ UNCHANGED <<call, calls, handlerVars, fnVars>>

\* RetryGet, were a second 401 to start another refresh-and-retry round
RetryGetLooping ==
    /\ cpc = "retry"
    /\ \E answer \in Answers, feed \in Feeds :
        /\ net' = Append(net, ActivitiesExchange(answer))
        /\ CASE answer = "401" ->
                  /\ cpc' = "refresh401"
                  /\ UNCHANGED ret
             [] answer # "timeout" /\ ~RaisesForStatus(answer) ->
                  /\ cpc' = "returned"
                  /\ ret' = [kind |-> "return", exc |-> None, feed |-> feed]
             [] OTHER ->
                  /\ cpc' = "raised"
                  /\ ret' = [kind |-> "raise",
                             exc |-> "Strava API request failed",
                             feed |-> <<>>]
    /\ UNCHANGED <<client, call, calls, handlerVars, fnVars>>

\* get_activities, the second requests.get and raise_for_status
RetryGet ==
    /\ cpc = "retry"
    /\ \E answer \in Answers, feed \in Feeds :
        /\ net' = Append(net, ActivitiesExchange(answer))
        /\ IF answer # "timeout" /\ ~RaisesForStatus(answer)
           THEN /\ cpc' = "returned"
                /\ ret' = [kind |-> "return", exc |-> None, feed |-> feed]
           ELSE /\ cpc' = "raised"
                /\ ret' = [kind |-> "raise",
                           exc |-> "Strava API request failed",
                           feed |-> <<>>]
    /\ UNCHANGED <<client, call, calls, handlerVars, fnVars>>

-----------------------------------------------------------------------------
(* Dates (datetime as utils.py uses it).  A datetime is [ord, sec]: the day  *)
(* number counted from 1 January 2025, and the second of that day.   *)
(* A date string "YYYY-MM-DD" is the record [y, m, d].                       *)

IsLeap(y) == (y % 4 = 0 /\ y % 100 # 0) \/ y % 400 = 0

DaysInMonth(y, m) ==
    CASE m \in {4, 6, 9, 11} -> 30
      [] m = 2 -> IF IsLeap(y) THEN 29 ELSE 28
      [] OTHER -> 31

DaysInYear(y) == IF IsLeap(y) THEN 366 ELSE 365

RECURSIVE DaysBeforeYear(_)
DaysBeforeYear(y) ==
    IF y <= 2025 THEN 0 ELSE DaysBeforeYear(y - 1) + DaysInYear(y - 1)

RECURSIVE DaysBeforeMonth(_, _)
DaysBeforeMonth(y, m) ==
    IF m <= 1 THEN 0 ELSE DaysBeforeMonth(y, m - 1) + DaysInMonth(y, m - 1)

ValidDate(s) ==
    /\ s.y >= 2025
    /\ s.m \in 1..12
    /\ s.d \in 1..DaysInMonth(s.y, s.m)

\* date -> day number
ToOrdinal(s) == DaysBeforeYear(s.y) + DaysBeforeMonth(s.y, s.m) + s.d - 1

RECURSIVE YearOf(_, _)
YearOf(n, y) == IF n < DaysInYear(y) THEN y ELSE YearOf(n - DaysInYear(y), y + 1)

RECURSIVE MonthOf(_, _, _)
MonthOf(n, y, m) ==
    IF n < DaysInMonth(y, m) THEN m ELSE MonthOf(n - DaysInMonth(y, m), y, m + 1)

\* strftime("%Y-%m-%d"): day number -> date string
StrfDate(n) ==
    LET y == YearOf(n, 2025)
        r == n - DaysBeforeYear(y)
        m == MonthOf(r, y, 1)
    IN  [y |-> y, m |-> m, d |-> r - DaysBeforeMonth(y, m) + 1]

\* datetime.weekday(): Monday is 0.  1 January 2025 is a Wednesday.
Weekday(n) == (n + 2) % 7

\* timedelta.days of (a - b): whole days, rounded towards minus infinity
DeltaDays(a, b) ==
    LET secs == (a.ord - b.ord) * 86400 + (a.sec - b.sec)
    IN  IF secs >= 0 THEN secs \div 86400
        ELSE -((-secs + 86399) \div 86400)

\* Floor division by 7 (Python's //)
FloorDiv7(n) == IF n >= 0 THEN n \div 7 ELSE -((-n + 6) \div 7)

\* get_week_start, were the day of the week taken from isoweekday()
\* (Monday is 1)
get_week_start_iso(t) == [ord |-> t.ord - (Weekday(t.ord) + 1), sec |-> 0]

\* get_week_start: Monday of the current week at 00:00:00
get_week_start(t) == [ord |-> t.ord - Weekday(t.ord), sec |-> 0]

\* An event date string as configured: a date "YYYY-MM-DD", a timestamp with a
\* UTC offset ("...T00:00:00+00:00"), or text that is no ISO date at all.
DateStr(ymd)  == [form |-> "date", y |-> ymd.y, m |-> ymd.m, d |-> ymd.d]
AwareStr(ymd) == [form |-> "aware", y |-> ymd.y, m |-> ymd.m, d |-> ymd.d]
TextStr       == [form |-> "text", y |-> 0, m |-> 0, d |-> 0]

\* calculate_weeks_until_event(event_date_str) called at clock reading t
calculate_weeks_until_event(event_date_str, t) ==
    IF event_date_str.form = "text" \/ ~ValidDate(event_date_str)
    THEN Return(0)                       \* fromisoformat: ValueError, caught
    ELSE IF event_date_str.form = "aware"
    THEN Raise("TypeError")              \* aware minus naive datetime
    ELSE LET event_date == [ord |-> ToOrdinal(event_date_str), sec |-> 0]
             days_diff  == DeltaDays(event_date, t)
         IN  Return(Max(0, FloorDiv7(days_diff)))

-----------------------------------------------------------------------------
(* Training schedule (utils.get_weekly_target).  Miles are held in tenths:   *)
(* 25.0 is 250.                                                              *)

DefaultTarget == 250

\* A field of a JSON object: a number, null, a string (holding a numeral or
\* not), or no such key.
JNum(n)    == [t |-> "num", n |-> n]
JNumStr(n) == [t |-> "numstr", n |-> n]
JNull      == [t |-> "null", n |-> 0]
JStr       == [t |-> "str", n |-> 0]
JMissing   == [t |-> "missing", n |-> 0]

\* An element of a JSON list: an object with the two schedule keys, or
\* something that is no object (a number)
Entry(weeks_until, target_miles) ==
    [obj |-> TRUE, weeks_until |-> weeks_until, target_miles |-> target_miles]
NonObject == [obj |-> FALSE, weeks_until |-> JMissing, target_miles |-> JMissing]

\* The training_schedule_json argument: None, "", a Python [], text that is
\* not JSON, or JSON text holding a scalar, an object or a list
Schedule(kind, items) == [kind |-> kind, items |-> items]

\* float(x) for a JSON field x
Float(x) ==
    CASE x.t \in {"num", "numstr"} -> Return(x.n * 10)
      [] x.t = "missing" -> Raise("KeyError")
      [] x.t = "str"     -> Raise("ValueError")
      [] OTHER           -> Raise("TypeError")

\* InsertDesc, were the sort to put an item before the items of equal key
RECURSIVE InsertDescTies(_, _)
InsertDescTies(sorted, x) ==
    IF sorted = <<>> THEN <<x>>
    ELSE IF Head(sorted).weeks_until.n <= x.weeks_until.n
         THEN <<x>> \o sorted
         ELSE <<Head(sorted)>> \o InsertDescTies(Tail(sorted), x)

\* sorted(..., reverse=True) is stable: an item goes after every item whose
\* key is greater than or equal to its own
RECURSIVE InsertDesc(_, _)
InsertDesc(sorted, x) ==
    IF sorted = <<>> THEN <<x>>
    ELSE IF Head(sorted).weeks_until.n < x.weeks_until.n
         THEN <<x>> \o sorted
         ELSE <<Head(sorted)>> \o InsertDesc(Tail(sorted), x)

RECURSIVE SortedDesc(_, _)
SortedDesc(done, todo) ==
    IF todo = <<>> THEN done
    ELSE SortedDesc(InsertDesc(done, Head(todo)), Tail(todo))

\* the first item of the list whose key lambda x: x['weeks_until'] raises,
\* or 0
RECURSIVE FirstBadKey(_, _)
FirstBadKey(items, i) ==
    IF i > Len(items) THEN 0
    ELSE IF ~items[i].obj \/ items[i].weeks_until.t = "missing" THEN i
    ELSE FirstBadKey(items, i + 1)

\* `for entry in sorted_schedule: if weeks_until_event >= entry['weeks_until']`
RECURSIVE FirstReached(_, _, _)
FirstReached(sorted, w, i) ==
    IF i > Len(sorted) THEN 0
    ELSE IF w >= sorted[i].weeks_until.n THEN i
    ELSE FirstReached(sorted, w, i + 1)

\* an except clause of get_weekly_target
Caught(exc) == exc \in {"JSONDecodeError", "KeyError", "ValueError"}

\* the body of the try block, for JSON text that parsed
WeeklyTargetTry(w, schedule) ==
    IF schedule.kind = "scalar" THEN Raise("TypeError")     \* not iterable
    ELSE IF schedule.kind = "object" /\ schedule.items # <<>>
    THEN Raise("TypeError")        \* iterates the keys: 'weeks_until' of a str
    ELSE
    LET items == schedule.items
        bad   == FirstBadKey(items, 1)
    IN  IF bad # 0
        THEN IF items[bad].obj THEN Raise("KeyError") ELSE Raise("TypeError")
        ELSE IF \E i \in 1..Len(items) : items[i].weeks_until.t # "num"
        THEN Raise("TypeError")          \* None or str compared with int
        ELSE
        LET sorted_schedule == SortedDesc(<<>>, items)
            hit == FirstReached(sorted_schedule, w, 1)
        IN  IF hit # 0 THEN Float(sorted_schedule[hit].target_miles)
            ELSE IF sorted_schedule # <<>>
                 THEN Float(sorted_schedule[1].target_miles)
                 ELSE Return(DefaultTarget)

get_weekly_target(w, schedule) ==
    IF schedule.kind \in {"None", "empty_str", "empty_list"}
    THEN Return(DefaultTarget)
    ELSE LET r == IF schedule.kind = "not_json" THEN Raise("JSONDecodeError")
                  ELSE WeeklyTargetTry(w, schedule)
         IN  IF r.kind = "raise" /\ Caught(r.exc) THEN Return(DefaultTarget)
             ELSE r

-----------------------------------------------------------------------------
(* Natural numbers of any size, for the 53-bit significands of Python's      *)
(* floats: limbs in base 2^15 = 32768, least significant first, no leading   *)
(* zero limb; <<>> is 0.  An operator that uses an argument more than once   *)
(* takes it through Only({... : x \in {argument}}), which computes the       *)
(* argument once.                                                            *)

\* the element of a one-element set
Only(S) == CHOOSE x \in S : TRUE

RECURSIVE BN(_)
BN(n) == IF n = 0 THEN <<>> ELSE <<n % 32768>> \o BN(n \div 32768)

RECURSIVE BNToIntAt(_, _)
BNToIntAt(a, i) ==
    IF i > Len(a) THEN 0 ELSE a[i] + 32768 * BNToIntAt(a, i + 1)

BNToInt(a) == Only({BNToIntAt(x, 1) : x \in {a}})

\* a without its leading zero limbs
BNNorm(a) ==
    Only({IF \A i \in 1..Len(x) : x[i] = 0 THEN <<>>
          ELSE SubSeq(x, 1, CHOOSE i \in 1..Len(x) :
                                /\ x[i] # 0
                                /\ \A j \in (i + 1)..Len(x) : x[j] = 0)
          : x \in {a}})

\* -1, 0 or 1 as a < b, a = b or a > b
BNCmp(a, b) ==
    Only({IF Len(x) # Len(y) THEN (IF Len(x) > Len(y) THEN 1 ELSE -1)
          ELSE IF x = y THEN 0
          ELSE LET i == CHOOSE i \in 1..Len(x) :
                            /\ x[i] # y[i]
                            /\ \A j \in (i + 1)..Len(x) : x[j] = y[j]
               IN  IF x[i] > y[i] THEN 1 ELSE -1
          : x \in {a}, y \in {b}})

RECURSIVE BNSubAt(_, _, _, _)
BNSubAt(a, b, i, borrow) ==
    IF i > Len(a) THEN <<>>
    ELSE LET x == a[i] - (IF i <= Len(b) THEN b[i] ELSE 0) - borrow
         IN  IF x < 0 THEN <<x + 32768>> \o BNSubAt(a, b, i + 1, 1)
             ELSE <<x>> \o BNSubAt(a, b, i + 1, 0)

\* a - b, for a >= b
BNSub(a, b) == Only({BNNorm(BNSubAt(x, y, 1, 0)) : x \in {a}, y \in {b}})

RECURSIVE BNMulAt(_, _, _, _)
BNMulAt(a, c, i, carry) ==
    IF i > Len(a) THEN BN(carry)
    ELSE LET x == a[i] * c + carry
         IN  <<x % 32768>> \o BNMulAt(a, c, i + 1, x \div 32768)

\* a * c, for 0 <= c < 65536
BNMulSmall(a, c) ==
    Only({IF z = 0 THEN <<>> ELSE BNMulAt(x, z, 1, 0) : x \in {a}, z \in {c}})

\* a + c, for 0 <= c < 32768
RECURSIVE BNAddAt(_, _, _)
BNAddAt(a, i, c) ==
    IF i > Len(a) THEN BN(c)
    ELSE LET x == a[i] + c
         IN  <<x % 32768>> \o BNAddAt(a, i + 1, x \div 32768)

RECURSIVE Pow2(_)
Pow2(k) == IF k = 0 THEN 1 ELSE 2 * Pow2(k - 1)

RECURSIVE IntBitLen(_)
IntBitLen(n) == IF n = 0 THEN 0 ELSE 1 + IntBitLen(n \div 2)

BNBitLen(a) ==
    Only({IF x = <<>> THEN 0 ELSE 15 * (Len(x) - 1) + IntBitLen(x[Len(x)])
          : x \in {a}})

\* a * 2^k
BNShl(a, k) ==
    Only({IF x = <<>> THEN <<>>
          ELSE BNMulSmall([i \in 1..(j \div 15) |-> 0] \o x, Pow2(j % 15))
          : x \in {a}, j \in {k}})

RECURSIVE BNDivSmallAt(_, _, _, _)
BNDivSmallAt(a, c, i, rem) ==
    IF i = 0 THEN <<>>
    ELSE LET x == rem * 32768 + a[i]
         IN  BNDivSmallAt(a, c, i - 1, x % c) \o <<x \div c>>

\* floor(a / 2^k)
BNShr(a, k) ==
    Only({IF j \div 15 >= Len(x) THEN <<>>
          ELSE Only({BNNorm(BNDivSmallAt(top, c, Len(top), 0))
                     : top \in {SubSeq(x, j \div 15 + 1, Len(x))},
                       c \in {Pow2(j % 15)}})
          : x \in {a}, j \in {k}})

\* a mod 2^k
BNLow(a, k) ==
    Only({BNSub(x, BNShl(BNShr(x, j), j)) : x \in {a}, j \in {k}})

-----------------------------------------------------------------------------
(* Python floats (IEEE 754 binary64).  A positive float is [m, e]: the value *)
(* m * 2^e with 2^52 <= m < 2^53; 0.0 is m = <<>>.  Every operation rounds   *)
(* its exact result to the nearest float, a tie to the even significand.     *)

FloatZero == [m |-> <<>>, e |-> 0]

\* one digit of a long division: floor(r / v) for r < v * 32768, v with its top
\* limb at least 16384.  The estimate from the leading limbs is at most 2 too
\* large.
RECURSIVE CorrectDigit(_, _, _)
CorrectDigit(r, v, qhat) ==
    IF BNCmp(BNMulSmall(v, qhat), r) > 0 THEN CorrectDigit(r, v, qhat - 1)
    ELSE qhat

QuotientDigit(r, v) ==
    Only({LET n == Len(y)
              lead == (IF Len(x) > n THEN x[n + 1] ELSE 0) * 32768
                          + (IF Len(x) >= n THEN x[n] ELSE 0)
          IN  Only({CorrectDigit(x, y, IF qhat > 32767 THEN 32767 ELSE qhat)
                    : qhat \in {lead \div y[n]}})
          : x \in {r}, y \in {v}})

\* long division of u by v, the limbs of u taken from the top: i limbs left
RECURSIVE LongDivAt(_, _, _, _, _)
LongDivAt(u, v, i, q, r) ==
    IF i = 0 THEN [q |-> BNNorm(q), r |-> r]
    ELSE Only({Only({Only({LongDivAt(u, v, i - 1, <<digit>> \o q, r2)
                           : r2 \in {BNSub(r1, BNMulSmall(v, digit))}})
                     : digit \in {QuotientDigit(r1, v)}})
               : r1 \in {BNNorm(<<u[i]>> \o r)}})

\* [q, r]: q is floor(u / v); r is zero exactly when v divides u
BNDivide(u, v) ==
    Only({Only({LongDivAt(u1, v1, Len(u1), <<>>, <<>>)
                : u1 \in {BNShl(u, t)}, v1 \in {BNShl(y, t)}})
          : y \in {v}, t \in {15 - IntBitLen(v[Len(v)])}})

\* the quotient q of a division and whether it left a remainder, rounded to
\* the float nearest to (q and the rest) * 2^e
FloatRounded(q, rest, e) ==
    Only({Only({LET low == BNToInt(BNLow(x, drop))
                    half == Pow2(drop - 1)
                    up == \/ low > half
                          \/ low = half /\ (rest \/ m0[1] % 2 = 1)
                IN  Only({IF BNBitLen(m) = 54
                          THEN [m |-> BNShr(m, 1), e |-> e + drop + 1]
                          ELSE [m |-> m, e |-> e + drop]
                          : m \in {IF up THEN BNAddAt(m0, 1, 1) ELSE m0}})
                : m0 \in {BNShr(x, drop)}})
          : x \in {q}, drop \in {BNBitLen(q) - 53}})

\* the float nearest to (n / d) * 2^k, for naturals n > 0 and d > 0
FloatQuotient(n, d, k) ==
    Only({Only({Only({FloatRounded(qr.q, qr.r # <<>>, k - s)
                      : qr \in {IF s >= 0 THEN BNDivide(BNShl(x, s), y)
                                ELSE BNDivide(x, BNShl(y, -s))}})
                : s \in {54 + BNBitLen(y) - BNBitLen(x)}})
          : x \in {n}, y \in {d}})

\* float(n) / float(d) for integers n >= 0, d > 0 that floats hold exactly
FloatRatio(n, d) ==
    IF n = 0 THEN FloatZero ELSE FloatQuotient(BN(n), BN(d), 0)

\* x / y
FloatDiv(x, y) ==
    Only({IF a.m = <<>> THEN FloatZero ELSE FloatQuotient(a.m, b.m, a.e - b.e)
          : a \in {x}, b \in {y}})

\* x * c for an integer 0 <= c < 65536
FloatTimes(x, c) ==
    Only({IF a.m = <<>> \/ c = 0 THEN FloatZero
          ELSE FloatQuotient(BNMulSmall(a.m, c), <<1>>, a.e)
          : a \in {x}})

\* int(x): the whole part of x
FloatTrunc(x) ==
    Only({IF a.e >= 0 THEN BNToInt(BNShl(a.m, a.e))
          ELSE BNToInt(BNShr(a.m, -a.e))
          : a \in {x}})

\* x - int(x), which floats hold exactly
FloatFrac(x) ==
    Only({IF a.e >= 0 \/ a.m = <<>> THEN FloatZero
          ELSE Only({IF low = <<>> THEN FloatZero
                     ELSE FloatQuotient(low, <<1>>, a.e)
                     : low \in {BNLow(a.m, -a.e)}})
          : a \in {x}})

\* round(x): the nearest integer, a tie to the even one
FloatRound(x) ==
    Only({IF a.e >= 0 \/ a.m = <<>> THEN FloatTrunc(a)
          ELSE Only({IF c > 0 \/ (c = 0 /\ whole % 2 = 1) THEN whole + 1
                     ELSE whole
                     : whole \in {FloatTrunc(a)},
                       c \in {BNCmp(BNMulSmall(BNLow(a.m, -a.e), 2),
                                    BNShl(<<1>>, -a.e))}})
          : a \in {x}})

\* round(x, ndigits) for x >= 0, in units of 1/scale, scale being 10^ndigits:
\* the multiple of 1/scale nearest to the float, a tie to the even one
FloatRoundTo(x, scale) ==
    Only({FloatRound([m |-> BNMulSmall(a.m, scale), e |-> a.e]) : a \in {x}})

-----------------------------------------------------------------------------
(* Unit conversions (utils.py).  Miles are held in tenths.                   *)

\* Python round(n / d) for n >= 0, d > 0: to the nearest integer, a tie to
\* the even one
RoundHalfEven(n, d) ==
    LET q == n \div d
        r == n % d
    IN  IF 2 * r > d \/ (2 * r = d /\ q % 2 = 1) THEN q + 1 ELSE q

\* meters_to_miles: round(meters * 0.000621371, 1), in tenths of a mile.
\* meters * 621371 is formed in two limbs of four decimal digits.
meters_to_miles(meters) ==
    LET low  == meters * 1371
        high == meters * 62 + low \div 10000
        rem  == ((high % 10000) * 10000) + (low % 10000)
        q    == high \div 10000
    IN  IF rem > 50000000 \/ (rem = 50000000 /\ q % 2 = 1) THEN q + 1 ELSE q

\* seconds_to_minutes, were a tie rounded up: int(seconds / 60 + 0.5)
seconds_to_minutes_half_up(seconds) == (seconds + 30) \div 60

\* seconds_to_minutes: round(seconds / 60)
seconds_to_minutes(seconds) == RoundHalfEven(seconds, 60)

\* calculate_progress_percentage, both arguments in tenths of a mile: the
\* quotient and the product are each rounded to a float before round()
calculate_progress_percentage(weekly_miles, target_miles) ==
    IF target_miles = 0 THEN 0
    ELSE LET Abs(n) == IF n < 0 THEN -n ELSE n
             ratio == FloatDiv(FloatRatio(Abs(weekly_miles), 10),
                               FloatRatio(Abs(target_miles), 10))
             percentage == FloatTimes(ratio, 100)
         IN  Only({Min(100, IF (weekly_miles < 0) = (target_miles < 0)
                            THEN rounded ELSE -rounded)
                   : rounded \in {FloatRound(percentage)}})

-----------------------------------------------------------------------------
(* Pace (utils.calculate_pace).  A string is the sequence of its characters. *)

\* the characters of a decimal numeral
Digits == <<"0", "1", "2", "3", "4", "5", "6", "7", "8", "9">>

\* the float that the literal 0.000621371 denotes
MilesPerMeter == [m |-> <<22185, 8105, 29120, 162>>, e |-> -63]

\* f"{n}" for an int n >= 0
RECURSIVE DecStr(_)
DecStr(n) ==
    IF n < 10 THEN <<Digits[n + 1]>>
    ELSE DecStr(n \div 10) \o <<Digits[(n % 10) + 1]>>

\* f"{n:02d}" for an int n >= 0
Pad2(n) == IF n < 10 THEN <<"0">> \o DecStr(n) ELSE DecStr(n)

calculate_pace(distance_meters, duration_seconds, metric) ==
    IF distance_meters = 0 \/ duration_seconds = 0 THEN <<"0", ":", "0", "0">>
    ELSE LET distance_km == FloatRatio(distance_meters, 1000)
             distance_miles == FloatTimes(MilesPerMeter, distance_meters)
         IN  Only({Only({DecStr(mins) \o <<":">> \o Pad2(secs)
                         : mins \in {FloatTrunc(minutes_per_unit)},
                           secs \in {FloatTrunc(FloatTimes(
                                         FloatFrac(minutes_per_unit), 60))}})
                   : minutes_per_unit \in
                       {FloatDiv(FloatRatio(duration_seconds, 60),
                                 IF metric THEN distance_km
                                 ELSE distance_miles)}})

\* calculate_pace on the distances and moving times of Feeds, both ways,
\* computed once: <<distance, moving time, metric, pace>>
FeedPaces ==
    {<<a.distance, a.moving_time, metric,
       calculate_pace(a.distance, a.moving_time, metric)>> :
        a \in UNION {{feed[i] : i \in 1..Len(feed)} : feed \in Feeds},
        metric \in BOOLEAN}

\* calculate_pace as the handlers call it: read from FeedPaces when the
\* arguments are there, computed otherwise
PaceOf(distance_meters, duration_seconds, metric) ==
    LET known == {p \in FeedPaces : /\ p[1] = distance_meters
                                    /\ p[2] = duration_seconds
                                    /\ p[3] = metric}
    IN  IF known = {}
        THEN calculate_pace(distance_meters, duration_seconds, metric)
        ELSE Only(known)[4]

-----------------------------------------------------------------------------
(* Python dicts keyed by date strings, as functions *)

EmptyDict == <<>>

\* DictSet, were a key that is already there to keep its value (setdefault)
DictSetDefault(d, k, v) ==
    [x \in DOMAIN d \cup {k} |-> IF x \in DOMAIN d THEN d[x] ELSE v]

\* d[k] = v
DictSet(d, k, v) == [x \in DOMAIN d \cup {k} |-> IF x = k THEN v ELSE d[x]]
DictHas(d, k) == k \in DOMAIN d

-----------------------------------------------------------------------------
(* Weekly plan (utils.get_weekly_plan) *)

PlanEntry(day, workout) == [obj |-> TRUE, day |-> day, workout |-> workout]
Plan(kind, items) == [kind |-> kind, items |-> items]

\* get_weekly_plan: [] when absent or not JSON, else whatever json.loads gave
get_weekly_plan(weekly_plan_json) ==
    IF weekly_plan_json.kind \in {"None", "empty_str", "not_json"}
    THEN Plan("list", <<>>)
    ELSE weekly_plan_json

day_names == <<"Monday", "Tuesday", "Wednesday", "Thursday", "Friday",
               "Saturday", "Sunday">>

\* DayIndex, were a name that is no day of the week given the last index
DayIndexLast(day_name) ==
    IF \E i \in 1..Len(day_names) : day_names[i] = day_name
    THEN (CHOOSE i \in 1..Len(day_names) : day_names[i] = day_name) - 1
    ELSE Len(day_names) - 1

\* day_names.index(day_name) if day_name in day_names else 0
DayIndex(day_name) ==
    IF \E i \in 1..Len(day_names) : day_names[i] = day_name
    THEN (CHOOSE i \in 1..Len(day_names) : day_names[i] = day_name) - 1
    ELSE 0

-----------------------------------------------------------------------------
(* Forecast (weather_client.WeatherClient.get_daily_forecast) *)

\* one element of the payload's `list`: dt in seconds, the morning
\* temperature in tenths of a degree, pop in thousandths
ForecastDay(dt, morn, pop) == [dt |-> dt, morn |-> morn, pop |-> pop]

Noon(ymd) == ToOrdinal(ymd) * 86400 + 43200

Forecasts ==
    { <<>>,
      <<ForecastDay(Noon(Jan(6)), 100, 200)>>,
      <<ForecastDay(Noon(Jan(6)), 100, 200), ForecastDay(Noon(Jan(7)), 85, 125),
        ForecastDay(Noon(Jan(8)), -20, 0)>> }

\* ForecastsByDate, were pop stored as the fraction it arrives as
RECURSIVE ForecastsByDateFraction(_, _)
ForecastsByDateFraction(list, d) ==
    IF list = <<>> THEN d
    ELSE LET day == Head(list)
             forecast_date == StrfDate(day.dt \div 86400)
             weather_info  == [temp_morning |-> day.morn,
                               precipitation_prob |-> day.pop]
         IN  ForecastsByDateFraction(Tail(list),
                                     DictSet(d, forecast_date, weather_info))

\* forecasts_by_date: precipitation_prob is pop * 100, here in thousandths
\* of a percent
RECURSIVE ForecastsByDate(_, _)
ForecastsByDate(list, d) ==
    IF list = <<>> THEN d
    ELSE LET day == Head(list)
             forecast_date == StrfDate(day.dt \div 86400)
             weather_info  == [temp_morning |-> day.morn,
                               precipitation_prob |-> day.pop * 100]
         IN  ForecastsByDate(Tail(list), DictSet(d, forecast_date, weather_info))

-----------------------------------------------------------------------------
(* get_running_data, the computation after the two fetches *)

\* StravaClient.get_weekly_runs: the activities of type Run
get_weekly_runs(activities) == SelectSeq(activities, LAMBDA a : a.type = "Run")

\* ProcessRuns, were the total taken over the per-date index: a run replaces
\* the miles of an earlier run of its date
RECURSIVE ProcessRunsPerDate(_, _)
ProcessRunsPerDate(rs, acc) ==
    IF rs = <<>> THEN acc
    ELSE LET run == Head(rs)
             distance_miles == meters_to_miles(run.distance)
             run_date == run.start_date.date
             replaced == IF DictHas(acc.runs_by_date, run_date)
                         THEN acc.runs_by_date[run_date].distance_miles ELSE 0
             run_data ==
                 [distance_miles |-> distance_miles,
                  duration_minutes |-> seconds_to_minutes(run.moving_time),
                  pace_per_mile |-> PaceOf(run.distance, run.moving_time,
                                           FALSE)]
         IN  Only({ProcessRunsPerDate(Tail(rs), next)
                   : next \in
                       {[weekly_miles |->
                             acc.weekly_miles + distance_miles - replaced,
                         runs_by_date |->
                             DictSet(acc.runs_by_date, run_date, run_data)]}})

\* `for run in runs`: the running total and the per-date index
RECURSIVE ProcessRuns(_, _)
ProcessRuns(rs, acc) ==
    IF rs = <<>> THEN acc
    ELSE LET run == Head(rs)
             distance_miles == meters_to_miles(run.distance)
             run_date == run.start_date.date          \* split('T')[0]
             run_data ==
                 [distance_miles |-> distance_miles,
                  duration_minutes |-> seconds_to_minutes(run.moving_time),
                  pace_per_mile |-> PaceOf(run.distance, run.moving_time,
                                           FALSE)]
         IN  Only({ProcessRuns(Tail(rs), next)
                   : next \in
                       {[weekly_miles |->
                             acc.weekly_miles + distance_miles,
                         runs_by_date |->
                             DictSet(acc.runs_by_date, run_date, run_data)]}})

NoRun     == [distance_miles |-> 0, duration_minutes |-> 0,
              pace_per_mile |-> <<>>]
NoWeather == [temp_morning |-> 0, precipitation_prob |-> 0]

\* DayEntryOf, were the weather block added inside `if run_data:`
DayEntryOfWeatherOfRuns(day_plan, week_start_date, runs_by_date, wbd) ==
    LET day_name == day_plan.day
        day_date == StrfDate(week_start_date.ord + DayIndex(day_name))
        has_run  == DictHas(runs_by_date, day_date)
        has_wx   == has_run /\ DictHas(wbd, day_date)
    IN  [day |-> day_name, workout |-> day_plan.workout,
         completed |-> has_run,
         has_run |-> has_run,
         run |-> IF has_run THEN runs_by_date[day_date] ELSE NoRun,
         has_weather |-> has_wx,
         weather |-> IF has_wx
                     THEN [temp_morning |-> wbd[day_date].temp_morning,
                           precipitation_prob |->
                               RoundHalfEven(wbd[day_date].precipitation_prob,
                                             1000)]
                     ELSE NoWeather]

\* one pass of `for day_plan in weekly_plan`
DayEntryOf(day_plan, week_start_date, runs_by_date, wbd) ==
    LET day_name == day_plan.day
        day_date == StrfDate(week_start_date.ord + DayIndex(day_name))
        has_run  == DictHas(runs_by_date, day_date)
        has_wx   == DictHas(wbd, day_date)
    IN  [day |-> day_name, workout |-> day_plan.workout,
         completed |-> has_run,
         has_run |-> has_run,
         run |-> IF has_run THEN runs_by_date[day_date] ELSE NoRun,
         has_weather |-> has_wx,
         weather |-> IF has_wx
                     THEN [temp_morning |-> wbd[day_date].temp_morning,
                           precipitation_prob |->
                               RoundHalfEven(wbd[day_date].precipitation_prob,
                                             1000)]
                     ELSE NoWeather]

\* the first plan item on which the loop body raises, or 0
RECURSIVE FirstBadPlanItem(_, _)
FirstBadPlanItem(items, i) ==
    IF i > Len(items) THEN 0
    ELSE IF ~items[i].obj \/ items[i].day = "missing"
            \/ items[i].workout = "missing" THEN i
    ELSE FirstBadPlanItem(items, i + 1)

\* lines 112-170 of get_running_data, acc being what the loop over the runs
\* left and progress the percentage of line 110: Return(response body) or
\* Raise
RunningBody(loc, acc, progress, wbd, t) ==
    LET weekly_miles == acc.weekly_miles
        week_start_date == get_week_start(t)
        plan  == loc.weekly_plan
        bad   == FirstBadPlanItem(plan.items, 1)
    IN  IF plan.kind = "scalar" \/ (plan.kind = "object" /\ plan.items # <<>>)
        THEN Raise("TypeError")
        ELSE IF bad # 0
        THEN IF plan.items[bad].obj THEN Raise("KeyError") ELSE Raise("TypeError")
        ELSE LET processed_plan ==
                     [i \in 1..Len(plan.items) |->
                         DayEntryOf(plan.items[i], week_start_date,
                                    acc.runs_by_date, wbd)]
             IN  Return([kind |-> "dashboard",
                         weekly_miles |-> weekly_miles,
                         target_miles |-> loc.target_miles,
                         weeks_until_event |-> loc.weeks_until_event,
                         weekly_plan |-> processed_plan,
                         has_weekly_plan |-> Len(processed_plan) > 0,
                         progress_percentage |-> progress])

-----------------------------------------------------------------------------
(* Nothing of the request handling or of the client is in use *)

HandlerIdle ==
    /\ env = None /\ req = NoReq /\ pc = "idle" /\ logs = {}
    /\ locals = NoLocals
    /\ runs = <<>> /\ weather_by_date = <<>> /\ data = <<>> /\ resp = NoResp
ClientIdle ==
    /\ client = [alive |-> FALSE, access_token |-> NoToken]
    /\ cpc = "idle" /\ call = NoCall /\ calls = 0 /\ ret = NoRet /\ net = <<>>

-----------------------------------------------------------------------------
(* SpecTarget: get_weekly_target on every bounded input *)

RECURSIVE SeqsUpTo(_, _)
SeqsUpTo(S, n) ==
    IF n = 0 THEN {<<>>}
    ELSE LET shorter == SeqsUpTo(S, n - 1)
         IN  shorter \cup {Append(q, x) : q \in shorter, x \in S}

WellFormedEntries ==
    {Entry(JNum(k), JNum(t)) : k \in {4, 8, 12}, t \in {20, 25, 30}}

MalformedEntries ==
    {NonObject} \cup
    {Entry(k, JNum(25)) : k \in {JMissing, JNull, JStr, JNumStr(8)}} \cup
    {Entry(JNum(8), t) : t \in {JMissing, JNull, JStr, JNumStr(30)}}

ScheduleInputs ==
    {Schedule(k, <<>>) : k \in {"None", "empty_str", "empty_list", "not_json",
                                "scalar", "object"}} \cup
    {Schedule("object", <<NonObject>>)} \cup
    {Schedule("list", q) : q \in SeqsUpTo(WellFormedEntries, MaxSched)} \cup
    {Schedule("list", q) :
        q \in SeqsUpTo(WellFormedEntries \cup MalformedEntries, MaxBadSched)}

InitTarget ==
    /\ HandlerIdle /\ ClientIdle
    /\ now = [ord |-> 0, sec |-> 0]
    /\ fn_in \in [w : 0..MaxWeeks, schedule : ScheduleInputs]
    /\ fn_out = Pending

ApplyGetWeeklyTarget ==
    /\ fn_out = Pending
    /\ fn_out' = get_weekly_target(fn_in.w, fn_in.schedule)
    /\ UNCHANGED <<fn_in, handlerVars, clientVars>>

SpecTarget == InitTarget /\ [][ApplyGetWeeklyTarget]_vars

-----------------------------------------------------------------------------
(* SpecWeeks: calculate_weeks_until_event at every bounded clock reading *)

ClockSeconds == {0, 1, 43200, 86399}

\* the date string of the day `days` days after (before, if negative) day n
DatePlus(n, days) == DateStr(StrfDate(n + days))

InitWeeks ==
    /\ HandlerIdle /\ ClientIdle
    /\ now \in [ord : {10, 40, 340}, sec : ClockSeconds]
    /\ fn_in \in {DatePlus(now.ord, days) : days \in (-8)..MaxDaysOut}
               \cup {AwareStr(StrfDate(now.ord + 14)), TextStr,
                     DateStr([y |-> 2025, m |-> 2, d |-> 30])}
    /\ fn_out = Pending

ApplyWeeksUntilEvent ==
    /\ fn_out = Pending
    /\ fn_out' = calculate_weeks_until_event(fn_in, now)
    /\ UNCHANGED <<fn_in, handlerVars, clientVars>>

SpecWeeks == InitWeeks /\ [][ApplyWeeksUntilEvent]_vars

-----------------------------------------------------------------------------
(* get_nutrition_data: the `days` query parameter and the statistics *)

IsDigit(c) == \E i \in 1..Len(Digits) : Digits[i] = c
DigitValue(c) == (CHOOSE i \in 1..Len(Digits) : Digits[i] = c) - 1

RECURSIVE DigitsValue(_, _)
DigitsValue(text, acc) ==
    IF text = <<>> THEN acc
    ELSE DigitsValue(Tail(text), acc * 10 + DigitValue(Head(text)))

\* int(text) for text over digits, "-" and letters: Return(n), or
\* Raise("ValueError")
PyInt(text) ==
    LET negative == text # <<>> /\ Head(text) = "-"
        digits   == IF negative THEN Tail(text) ELSE text
    IN  IF digits = <<>> \/ \E i \in 1..Len(digits) : ~IsDigit(digits[i])
        THEN Raise("ValueError")
        ELSE Return(IF negative THEN -DigitsValue(digits, 0)
                    ELSE DigitsValue(digits, 0))

DaysDefault == <<"3", "0">>
Absent == [present |-> FALSE, text |-> <<>>]
Given(text) == [present |-> TRUE, text |-> text]

\* ParseDays without `days = max(days, 1)`
ParseDaysNoFloor(param) ==
    LET days_param == IF param.present THEN param.text ELSE DaysDefault
        parsed == PyInt(days_param)
    IN  IF parsed.kind = "raise" THEN 30
        ELSE Min(parsed.value, 90)

\* lines 220-225: req.params.get('days', '30'), int, min 90, max 1
ParseDays(param) ==
    LET days_param == IF param.present THEN param.text ELSE DaysDefault
        parsed == PyInt(days_param)
    IN  IF parsed.kind = "raise" THEN 30
        ELSE Max(Min(parsed.value, 90), 1)

RECURSIVE SumDistance(_)
SumDistance(activities) ==
    IF activities = <<>> THEN 0
    ELSE Head(activities).distance + SumDistance(Tail(activities))

\* activity.get(key) of get_monthly_activities_detailed: None when the feed's
\* activity has no such key
Get(activity, key) == IF key \in DOMAIN activity THEN activity[key] ELSE JNull

\* the truth value of a number or None
Truthy(v) == v.t = "num" /\ v.n # 0

\* round(sum(a[key] for a in with) / len(with), ndigits) if with else None,
\* `with` being [a for a in activities if a[key]]; in units of 1/scale
AverageOf(activities, key, scale) ==
    LET with == SelectSeq(activities, LAMBDA a : Truthy(Get(a, key)))
        RECURSIVE Sum(_)
        Sum(list) == IF list = <<>> THEN 0
                     ELSE Get(Head(list), key).n + Sum(Tail(list))
    IN  IF with = <<>> THEN JNull
        ELSE JNum(FloatRoundTo(FloatRatio(Sum(with), Len(with)), scale))

\* one element of activities_formatted, the fields that are computed.  The
\* temperature is in whole degrees Celsius and in tenths of a degree
\* Fahrenheit: t * 9/5 + 32 has one decimal, which round(..., 1) gives back.
FormatActivity(activity) ==
    LET average_temp == Get(activity, "average_temp")
    IN  [average_pace_min_per_km |->
             IF activity.distance > 0
             THEN Given(PaceOf(activity.distance, activity.moving_time,
                               TRUE))
             ELSE Absent,
         average_pace_min_per_mile |->
             IF activity.distance > 0
             THEN Given(PaceOf(activity.distance, activity.moving_time,
                               FALSE))
             ELSE Absent,
         average_temp_celsius |-> average_temp,
         average_temp_fahrenheit |->
             IF Truthy(average_temp) THEN JNum(18 * average_temp.n + 320)
             ELSE JNull]

\* lines 242-375, the rollups: Return(response body) or Raise
NutritionBody(days, activities) ==
    LET total_activities == Len(activities)
        total_distance_meters == SumDistance(activities)
    IN  IF days = 0 THEN Raise("ZeroDivisionError")
        ELSE Return([kind |-> "nutrition",
                     days |-> days,
                     \* in tenths of a beat, in calories, in tenths
                     average_heartrate |->
                         AverageOf(activities, "average_heartrate", 10),
                     average_calories_per_activity |->
                         AverageOf(activities, "calories", 1),
                     average_suffer_score |->
                         AverageOf(activities, "suffer_score", 10),
                     activities |->
                         [i \in 1..Len(activities) |->
                             FormatActivity(activities[i])],
                     total_activities |-> total_activities,
                     \* round(m / 1000, 2), in hundredths of a km
                     total_distance_km |-> RoundHalfEven(total_distance_meters, 10),
                     \* round(total / (days / 7), 1), in tenths
                     activities_per_week |->
                         RoundHalfEven(total_activities * 70, days),
                     \* round(total / days, 2), in hundredths
                     activities_per_day |->
                         RoundHalfEven(total_activities * 100, days)])

-----------------------------------------------------------------------------
(* The HTTP handlers (function_app.py) *)

Timestamp(t) == t.ord * 86400 + t.sec

Respond(status, error, details, body) ==
    /\ resp' = [status |-> status, error |-> error, details |-> details,
                body |-> body]
    /\ pc' = "done"

\* InternalError, were the exception to leave the handler
InternalErrorEscapes(exc) == pc' = "raised" /\ UNCHANGED resp

\* the outer `except Exception` of both handlers
InternalError(exc) == Respond(500, "Internal server error", exc, NoBody)

\* WeatherClient(): the three settings are read and checked
WeatherFetch(answer, forecast) ==
    IF ~env.weather_creds
    THEN [net |-> net, failed |-> TRUE, wbd |-> EmptyDict, data |-> <<>>]
    ELSE [net |-> Append(net, Exchange("forecast", NoToken, 0, answer)),
          failed |-> answer = "timeout" \/ RaisesForStatus(answer),
          data |-> IF answer = "timeout" \/ RaisesForStatus(answer)
                   THEN <<>> ELSE forecast,
          wbd |-> IF answer = "timeout" \/ RaisesForStatus(answer)
                  THEN EmptyDict ELSE ForecastsByDate(forecast, EmptyDict)]

\* EventDateMissing, were the test `event_date is None`
EventDateIsNone(event_date) == event_date.form = "None"

\* `if not event_date`: the variable is unset or empty
EventDateMissing(event_date) == event_date.form \in {"None", "empty"}

\* get_running_data, lines 42-69: configuration, the time-based values,
\* StravaClient() and the entry of get_weekly_runs
ReceiveRunning ==
    /\ pc = "idle"
    /\ req' = [endpoint |-> "running", days |-> Absent]
    /\ IF EventDateMissing(env.event_date)
       THEN /\ Respond(500, "Event date not configured", None, NoBody)
            /\ UNCHANGED <<locals, logs, runs, clientVars>>
       ELSE
       LET week_start == get_week_start(now)
           weeks == calculate_weeks_until_event(env.event_date, now)
           target == IF weeks.kind = "raise" THEN weeks
                     ELSE get_weekly_target(weeks.value, env.schedule)
       IN  IF target.kind = "raise"
           THEN /\ InternalError(target.exc)
                /\ UNCHANGED <<locals, logs, runs, clientVars>>
           ELSE
           /\ locals' = [kind |-> "running",
                         week_start |-> week_start,
                         weeks_until_event |-> weeks.value,
                         target_miles |-> target.value,
                         weekly_plan |-> get_weekly_plan(env.plan)]
           /\ UNCHANGED resp
           /\ IF ~env.strava_creds
              THEN \* StravaClient() raises ValueError: runs = []
                   /\ logs' = logs \cup {"Strava API error"}
                   /\ runs' = <<>>
                   /\ pc' = "weather"
                   /\ UNCHANGED clientVars
              ELSE /\ client' = NewClient
                   /\ GetActivitiesBegin(Timestamp(week_start), 50)
                   /\ pc' = "strava"
                   /\ UNCHANGED <<logs, runs, net>>
    /\ UNCHANGED <<env, now, weather_by_date, data, fnVars>>

\* get_running_data, lines 69-75: get_weekly_runs returned or raised
RunningFetched ==
    /\ pc = "strava" /\ req.endpoint = "running"
    /\ cpc \in {"returned", "raised"}
    /\ IF cpc = "returned"
       THEN /\ runs' = get_weekly_runs(ret.feed)
            /\ UNCHANGED logs
       ELSE /\ runs' = <<>>
            /\ logs' = logs \cup {"Strava API error"}
    /\ cpc' = "idle"
    /\ pc' = "weather"
    /\ UNCHANGED <<env, now, req, locals, weather_by_date, data, resp, client,
                   call, calls, ret, net, fnVars>>

\* get_running_data, lines 76-192: the forecast fetch, the merge with the
\* plan and the response. get_week_start() at line 125 reads the clock again:
\* `later` is the instant of the first reading, or one past the midnight that
\* follows it
RunningWeather ==
    /\ pc = "weather"
    /\ \E acc \in {ProcessRuns(runs, [weekly_miles |-> 0,
                                       runs_by_date |-> EmptyDict])} :
        \E progress \in {calculate_progress_percentage(acc.weekly_miles,
                                                       locals.target_miles)} :
        \E answer \in Answers, forecast \in Forecasts,
           later \in {now, [ord |-> now.ord + 1, sec |-> 0]} :
        \E wx \in {WeatherFetch(answer, forecast)} :
        \E body \in {RunningBody(locals, acc, progress, wx.wbd, later)} :
            /\ now' = later
            /\ net' = wx.net
            /\ weather_by_date' = wx.wbd
            /\ data' = wx.data
            /\ logs' = IF wx.failed THEN logs \cup {"Weather API error"} ELSE logs
            /\ IF body.kind = "raise"
               THEN InternalError(body.exc)
               ELSE Respond(200, None, None, body.value)
    /\ UNCHANGED <<env, req, locals, runs, client, cpc, call, calls, ret,
                   fnVars>>

\* get_nutrition_data, lines 218-232: the days parameter, StravaClient() and
\* the entry of get_monthly_activities_detailed
ReceiveNutrition(param) ==
    /\ pc = "idle"
    /\ req' = [endpoint |-> "nutrition", days |-> param]
    /\ LET days == ParseDays(param)
       IN  /\ locals' = [kind |-> "nutrition", days |-> days]
           /\ IF ~env.strava_creds
              THEN /\ Respond(500, "Failed to fetch Strava data",
                              "Missing required Strava credentials", NoBody)
                   /\ logs' = logs \cup {"Strava API error"}
                   /\ UNCHANGED clientVars
              ELSE /\ client' = NewClient
                   /\ GetActivitiesBegin(Timestamp(now) - days * 86400, 200)
                   /\ pc' = "strava"
                   /\ UNCHANGED <<resp, net, logs>>
    /\ UNCHANGED <<env, now, runs, weather_by_date, data, fnVars>>

\* NutritionFetched, were a failed fetch degraded to an empty activity list
\* the way /running-data degrades it
NutritionFetchedDegrading ==
    /\ pc = "strava" /\ req.endpoint = "nutrition"
    /\ cpc \in {"returned", "raised"}
    /\ LET body == NutritionBody(locals.days,
                                 IF cpc = "raised" THEN <<>> ELSE ret.feed)
       IN  /\ logs' = IF cpc = "raised" THEN logs \cup {"Strava API error"}
                      ELSE logs
           /\ IF body.kind = "raise"
              THEN InternalError(body.exc)
              ELSE Respond(200, None, None, body.value)
    /\ cpc' = "idle"
    /\ UNCHANGED <<env, now, req, locals, runs, weather_by_date, data, client,
                   call, calls, ret, net, fnVars>>

\* get_nutrition_data, lines 233-396: the fetch returned or raised
NutritionFetched ==
    /\ pc = "strava" /\ req.endpoint = "nutrition"
    /\ cpc \in {"returned", "raised"}
    /\ IF cpc = "raised"
       THEN /\ Respond(500, "Failed to fetch Strava data", ret.exc, NoBody)
            /\ logs' = logs \cup {"Strava API error"}
       ELSE \E body \in {NutritionBody(locals.days, ret.feed)} :
                /\ UNCHANGED logs
                /\ IF body.kind = "raise"
                   THEN InternalError(body.exc)
                   ELSE Respond(200, None, None, body.value)
    /\ cpc' = "idle"
    /\ UNCHANGED <<env, now, req, locals, runs, weather_by_date, data, client,
                   call, calls, ret, net, fnVars>>

-----------------------------------------------------------------------------
(* Spec: one request against one process configuration *)

TestSchedule ==
    Schedule("list", <<Entry(JNum(12), JNum(20)), Entry(JNum(8), JNum(25)),
                       Entry(JNum(4), JNum(30))>>)

BaseEnv ==
    [event_date |-> DateStr([y |-> 2025, m |-> 3, d |-> 16]),
     schedule |-> TestSchedule,
     plan |-> Plan("list", <<PlanEntry("Monday", "Easy 5mi")>>),
     strava_creds |-> TRUE, weather_creds |-> TRUE]

EventDates ==
    {[form |-> "None", y |-> 0, m |-> 0, d |-> 0],
     [form |-> "empty", y |-> 0, m |-> 0, d |-> 0], BaseEnv.event_date, TextStr,
     AwareStr([y |-> 2025, m |-> 3, d |-> 16])}

Schedules == {Schedule("None", <<>>), TestSchedule, Schedule("scalar", <<>>)}

Plans ==
    {Plan("None", <<>>), BaseEnv.plan, Plan("scalar", <<>>),
     Plan("not_json", <<>>), Plan("list", <<PlanEntry("Monday", "missing")>>),
     Plan("list", <<PlanEntry("Tuesday", "Tempo"), PlanEntry("Funday", "Rest"),
                    PlanEntry("Wednesday", "Long run")>>)}

Envs ==
    {[BaseEnv EXCEPT !.event_date = e, !.strava_creds = s, !.weather_creds = w] :
        e \in EventDates, s \in BOOLEAN, w \in BOOLEAN} \cup
    {[BaseEnv EXCEPT !.schedule = x] : x \in Schedules} \cup
    {[BaseEnv EXCEPT !.plan = x, !.strava_creds = s] :
        x \in Plans, s \in BOOLEAN}

MainDaysParams == {Absent, Given(<<"0">>), Given(<<"7">>), Given(<<"x">>)}

\* the clock: Monday 6 January 2025 at noon, Thursday 9 January 2025 at 08:00,
\* the last second of Sunday 12 January 2025
Init ==
    /\ env \in Envs
    /\ now \in {[ord |-> 5, sec |-> 43200], [ord |-> 8, sec |-> 28800],
               [ord |-> 11, sec |-> 86399]}
    /\ req = NoReq /\ pc = "idle" /\ logs = {} /\ locals = NoLocals
    /\ runs = <<>> /\ weather_by_date = EmptyDict /\ data = <<>>
    /\ resp = NoResp
    /\ ClientIdle
    /\ fn_in = None /\ fn_out = Pending

Next ==
    \/ ReceiveRunning
    \/ \E param \in MainDaysParams : ReceiveNutrition(param)
    \/ LazyRefresh
    \/ FirstGet
    \/ RefreshAfter401
    \/ RetryGet
    \/ RunningFetched
    \/ RunningWeather
    \/ NutritionFetched

Spec == Init /\ [][Next]_vars

-----------------------------------------------------------------------------
(* SpecClient: one client object, get_activities called again and again *)

InitClient ==
    /\ HandlerIdle
    /\ now = [ord |-> 0, sec |-> 0]
    /\ client = NewClient
    /\ cpc = "idle" /\ call = NoCall /\ calls = 0 /\ ret = NoRet /\ net = <<>>
    /\ fn_in = None /\ fn_out = Pending

\* a caller invokes client.get_activities(after_timestamp, per_page)
CallGetActivities ==
    /\ cpc \in {"idle", "returned", "raised"}
    /\ calls < MaxCalls
    /\ \E per_page \in {50, 200} : GetActivitiesBegin(0, per_page)
    /\ UNCHANGED <<client, net, handlerVars, fnVars>>

NextClient ==
    \/ CallGetActivities
    \/ LazyRefresh
    \/ FirstGet
    \/ RefreshAfter401
    \/ RetryGet

SpecClient == InitClient /\ [][NextClient]_vars

-----------------------------------------------------------------------------
(* SpecDays: the days parameter of /nutrition-data, every bounded text *)

InitDays ==
    /\ HandlerIdle /\ ClientIdle
    /\ now = [ord |-> 0, sec |-> 0]
    /\ fn_in \in {Absent} \cup {Given(t) : t \in SeqsUpTo({"-", "0", "1", "9", "x"}, MaxDaysLen)}
    /\ fn_out = Pending

ApplyParseDays ==
    /\ fn_out = Pending
    /\ fn_out' = Return(ParseDays(fn_in))
    /\ UNCHANGED <<fn_in, handlerVars, clientVars>>

SpecDays == InitDays /\ [][ApplyParseDays]_vars

-----------------------------------------------------------------------------
(* SpecNutrition: the rollups of /nutrition-data on every bounded list of    *)
(* activities                                                                *)

\* a run with every metric; a run at 0 degrees without suffer score; a ride
\* with suffer score 0 below zero; a workout without distance or metrics
InitNutrition ==
    /\ HandlerIdle /\ ClientIdle
    /\ now = [ord |-> 0, sec |-> 0]
    /\ fn_in \in SeqsUpTo(
           {Activity("Run", 5000, 1500, Jan(7), 7) @@
                [average_heartrate |-> JNum(155), calories |-> JNum(400),
                 suffer_score |-> JNum(50), average_temp |-> JNum(15)],
            Activity("Run", 8047, 3000, Jan(6), 7) @@
                [average_heartrate |-> JNum(145), calories |-> JNum(350),
                 suffer_score |-> JNull, average_temp |-> JNum(0)],
            Activity("Ride", 20000, 3600, Jan(8), 18) @@
                [average_heartrate |-> JNum(130), calories |-> JNum(501),
                 suffer_score |-> JNum(0), average_temp |-> JNum(-5)],
            Activity("WeightTraining", 0, 1800, Jan(8), 7)},
           MaxActivities)
    /\ fn_out = Pending

ApplyNutritionBody ==
    /\ fn_out = Pending
    /\ fn_out' = NutritionBody(30, fn_in)
    /\ UNCHANGED <<handlerVars, clientVars, fn_in>>

SpecNutrition == InitNutrition /\ [][ApplyNutritionBody]_vars

-----------------------------------------------------------------------------
(* SpecPace: calculate_pace on bounded distances and durations, per mile and *)
(* per kilometre                                                             *)

InitPace ==
    /\ HandlerIdle /\ ClientIdle
    /\ now = [ord |-> 0, sec |-> 0]
    /\ fn_in \in [distance_meters : {0, 1000, 5000, 8047},
                  duration_seconds : 0..MaxSeconds \cup {1500, 3000},
                  metric : BOOLEAN]
    /\ fn_out = Pending

ApplyCalculatePace ==
    /\ fn_out = Pending
    /\ fn_out' = Return(calculate_pace(fn_in.distance_meters,
                                       fn_in.duration_seconds, fn_in.metric))
    /\ UNCHANGED <<fn_in, handlerVars, clientVars>>

SpecPace == InitPace /\ [][ApplyCalculatePace]_vars

-----------------------------------------------------------------------------
(* SpecMinutes: seconds_to_minutes on every bounded number of seconds *)

InitMinutes ==
    /\ HandlerIdle /\ ClientIdle
    /\ now = [ord |-> 0, sec |-> 0]
    /\ fn_in \in 0..MaxSeconds
    /\ fn_out = Pending

ApplySecondsToMinutes ==
    /\ fn_out = Pending
    /\ fn_out' = Return(seconds_to_minutes(fn_in))
    /\ UNCHANGED <<fn_in, handlerVars, clientVars>>

SpecMinutes == InitMinutes /\ [][ApplySecondsToMinutes]_vars

-----------------------------------------------------------------------------
(* SpecProgress: calculate_progress_percentage on the weekly miles and the   *)
(* target that get_weekly_target returns from a schedule                     *)

\* no schedule, or one entry whose target is negative, zero or positive
ProgressSchedules ==
    {Schedule("None", <<>>)} \cup
    {Schedule("list", <<Entry(JNum(0), JNum(t))>>) : t \in {-10, 0, 20, 25}}

InitProgress ==
    /\ HandlerIdle /\ ClientIdle
    /\ now = [ord |-> 0, sec |-> 0]
    /\ fn_in \in [weekly_miles : 0..MaxMiles, schedule : ProgressSchedules]
    /\ fn_out = Pending

ApplyProgress ==
    /\ fn_out = Pending
    /\ LET target_miles == get_weekly_target(0, fn_in.schedule).value
       IN  fn_out' = Return(calculate_progress_percentage(fn_in.weekly_miles,
                                                          target_miles))
    /\ UNCHANGED <<fn_in, handlerVars, clientVars>>

SpecProgress == InitProgress /\ [][ApplyProgress]_vars

-----------------------------------------------------------------------------
(* SpecWeekStart: get_week_start at every bounded clock reading *)

InitWeekStart ==
    /\ HandlerIdle /\ ClientIdle
    /\ now \in [ord : 0..MaxClockDay, sec : ClockSeconds]
    /\ fn_in = None
    /\ fn_out = Pending

ApplyGetWeekStart ==
    /\ fn_out = Pending
    /\ fn_out' = Return(get_week_start(now))
    /\ UNCHANGED <<fn_in, handlerVars, clientVars>>

SpecWeekStart == InitWeekStart /\ [][ApplyGetWeekStart]_vars

-----------------------------------------------------------------------------
(* Properties of StravaClient.get_activities, under SpecClient *)

\* the exchanges of the get_activities call in progress (or just ended)
CallLog == SubSeq(net, call.start + 1, Len(net))
CallGets == SelectSeq(CallLog, LAMBDA x : x.kind = "activities")
CallEnded == cpc \in {"returned", "raised"}

\* position in CallLog of the first activities GET, or 0
FirstGetAt ==
    IF \E i \in 1..Len(CallLog) : CallLog[i].kind = "activities"
    THEN CHOOSE i \in 1..Len(CallLog) :
            /\ CallLog[i].kind = "activities"
            /\ \A j \in 1..(i - 1) : CallLog[j].kind # "activities"
    ELSE 0

\* the token refreshes that follow the first GET
RefreshesAfterFirstGet ==
    {i \in (FirstGetAt + 1)..Len(CallLog) : CallLog[i].kind = "token"}

Failed(answer) == answer # "200"

\* C1 as stated: a call issues at most 2 activities GETs; when the first GET
\* is answered 401 the client refreshes exactly once and reissues the same GET
\* exactly once, and a failed retry propagates with nothing sent after it; a
\* non-401 failure of the first GET propagates without a retry.
C1_RetryAlways ==
    /\ Len(CallGets) <= 2
    /\ (CallEnded /\ FirstGetAt # 0) =>
          IF CallGets[1].answer = "401"
          THEN /\ Cardinality(RefreshesAfterFirstGet) = 1
               /\ Len(CallGets) = 2
               /\ CallGets[2].after = CallGets[1].after
               /\ CallLog[Len(CallLog)] = CallGets[2]
               /\ Failed(CallGets[2].answer) => cpc = "raised"
          ELSE /\ Len(CallGets) = 1
               /\ RefreshesAfterFirstGet = {}
               /\ Failed(CallGets[1].answer) => cpc = "raised"

\* C1 as amended: as C1_RetryAlways, except that the GET is reissued only when
\* the refresh that follows the 401 succeeds; when that refresh fails the
\* error propagates and no second GET is sent.
C1_RetryOnce ==
    /\ Len(CallGets) <= 2
    /\ (CallEnded /\ FirstGetAt # 0) =>
          IF CallGets[1].answer = "401"
          THEN /\ Cardinality(RefreshesAfterFirstGet) = 1
               /\ LET refresh == CallLog[FirstGetAt + 1]
                  IN  IF Failed(refresh.answer)
                      THEN /\ Len(CallGets) = 1
                           /\ Len(CallLog) = FirstGetAt + 1
                           /\ cpc = "raised"
                      ELSE /\ Len(CallGets) = 2
                           /\ CallGets[2].after = CallGets[1].after
                           /\ CallLog[Len(CallLog)] = CallGets[2]
                           /\ Failed(CallGets[2].answer) => cpc = "raised"
          ELSE /\ Len(CallGets) = 1
               /\ RefreshesAfterFirstGet = {}
               /\ Failed(CallGets[1].answer) => cpc = "raised"

\* a call whose first GET and whose retried GET were both answered 401
C1_Witness ==
    /\ cpc = "raised"
    /\ Len(CallGets) = 2
    /\ CallGets[1].answer = "401" /\ CallGets[2].answer = "401"

-----------------------------------------------------------------------------
(* Properties of the handlers, under Spec *)

Done == pc = "done"
StravaFailed  == "Strava API error" \in logs
WeatherFailed == "Weather API error" \in logs

\* C2: /running-data with the event date absent or empty answers 500 with an
\* error field, and no outbound call is ever issued for that request.
C2_NoEventDateNoCalls ==
    (req.endpoint = "running" /\ env.event_date.form \in {"None", "empty"}) =>
        /\ net = <<>>
        /\ Done
        /\ resp.status = 500
        /\ resp.error = "Event date not configured"

\* the event date is the empty string, every credential is configured, and
\* the request has been answered
C2_Witness ==
    /\ Done /\ req.endpoint = "running"
    /\ env.event_date.form = "empty"
    /\ env.strava_creds /\ env.weather_creds

AdapterErrors ==
    {"Strava API request failed", "Strava token refresh failed",
     "Missing required Strava credentials", "Weather API request failed",
     "Missing required weather API credentials"}

\* C3: with an event date configured, a failure of the activity adapter, of
\* the forecast adapter or of both never fails /running-data: the handler goes
\* on with that source empty, the forecast fetch is still attempted after an
\* activity failure, and the response is 200 with zero runs and weekly_miles
\* 0.0 (activity failure), no weather block on any day (forecast failure).
C3_AdapterFailureAbsorbed ==
    (req.endpoint = "running" /\ (StravaFailed \/ WeatherFailed)) =>
        /\ StravaFailed => runs = <<>> /\ pc \in {"weather", "done"}
        /\ (Done /\ StravaFailed /\ env.weather_creds) =>
              \E i \in 1..Len(net) : net[i].kind = "forecast"
        /\ WeatherFailed => Done /\ weather_by_date = EmptyDict
        /\ Done =>
              /\ resp.status = 200
              /\ StravaFailed =>
                    /\ resp.body.weekly_miles = 0
                    /\ \A i \in 1..Len(resp.body.weekly_plan) :
                          ~resp.body.weekly_plan[i].completed
              /\ WeatherFailed =>
                    \A i \in 1..Len(resp.body.weekly_plan) :
                        ~resp.body.weekly_plan[i].has_weather

\* C4: on /nutrition-data any failure of the activity adapter (construction,
\* token refresh, the GET after its one retry) gives a 500 whose body has
\* error and details; no 200 comes from a failed fetch, and no statistics are
\* computed.
C4_NutritionFetchFatal ==
    (req.endpoint = "nutrition" /\ Done) =>
        /\ (~env.strava_creds \/ ret.kind = "raise") =>
              /\ resp.status = 500
              /\ resp.error = "Failed to fetch Strava data"
              /\ resp.details \in AdapterErrors
              /\ resp.body = NoBody
        /\ resp.status = 200 => env.strava_creds /\ ret.kind = "return"

\* the retried GET failed as well
C4_Witness ==
    /\ Done /\ req.endpoint = "nutrition"
    /\ ret.exc = "Strava API request failed"
    /\ Len(SelectSeq(net, LAMBDA x : x.kind = "activities")) = 2
    /\ resp.status = 500

-----------------------------------------------------------------------------
(* The days parameter, under SpecDays *)

-----------------------------------------------------------------------------
(* get_weekly_target, under SpecTarget *)

WellFormed(schedule) ==
    /\ schedule.kind = "list"
    /\ schedule.items # <<>>
    /\ \A i \in 1..Len(schedule.items) :
          /\ schedule.items[i].obj
          /\ schedule.items[i].weeks_until.t = "num"
          /\ schedule.items[i].target_miles.t = "num"

Threshold(items, i) == items[i].weeks_until.n
TargetOf(items, i)  == items[i].target_miles.n * 10

C7_TenWeeksGivesTwenty ==
    (fn_out # Pending /\ fn_in.schedule = TestSchedule /\ fn_in.w = 10) =>
        fn_out = Return(200)

\* C8: with the schedule [12 -> 20, 8 -> 25, 4 -> 30] the target for 2 weeks
\* until the event is 30.0, the target of the smallest threshold.
C8_TwoWeeksGivesThirty ==
    (fn_out # Pending /\ fn_in.schedule = TestSchedule /\ fn_in.w = 2) =>
        fn_out = Return(300)

\* C9: get_weekly_target never raises, whatever the schedule input.
C9_NeverRaises == fn_out # Pending => fn_out.kind = "return"

-----------------------------------------------------------------------------
(* calculate_weeks_until_event, under SpecWeeks *)

\* C10: for the date string of the day D >= 0 days after today the result is
\* floor(D / 7) at every time of day (8 for D = 56).
C10_WholeWeeksOfDays ==
    (fn_out # Pending /\ fn_in.form = "date" /\ ValidDate(fn_in)
        /\ ToOrdinal(fn_in) >= now.ord) =>
        fn_out = Return((ToOrdinal(fn_in) - now.ord) \div 7)

\* C11: calculate_weeks_until_event returns an integer >= 0 for every input
\* and raises nothing: 0 for an event in the past, 0 for a date string that
\* cannot be parsed or cannot be compared with the current time.
C11_WeeksNeverRaises ==
    fn_out # Pending =>
        /\ fn_out.kind = "return"
        /\ fn_out.value >= 0
        /\ (fn_in.form = "date" /\ ValidDate(fn_in)
               /\ ToOrdinal(fn_in) < now.ord) => fn_out.value = 0
        /\ (fn_in.form \in {"text", "aware"} \/ ~ValidDate(fn_in)) =>
               fn_out.value = 0

-----------------------------------------------------------------------------
(* seconds_to_minutes, under SpecMinutes *)

\* C13 as stated: seconds_to_minutes rounds half up, floor((s + 30) / 60), so
\* 90 -> 2, 150 -> 3 and 30 -> 1.
C13_RoundsHalfUp ==
    fn_out # Pending => fn_out.value = (fn_in + 30) \div 60

\* C13 as amended: the result is the whole number of minutes nearest to s
\* seconds, and when s lies exactly between two minutes it is the even one
\* (90 -> 2, 150 -> 2, 30 -> 0).
C13_RoundsHalfEven ==
    fn_out # Pending =>
        LET m == fn_out.value
            off == IF 60 * m >= fn_in THEN 60 * m - fn_in ELSE fn_in - 60 * m
        IN  /\ m \in 0..(fn_in \div 60 + 1)
            /\ off <= 30
            /\ off = 30 => m % 2 = 0

\* 150 seconds, two and a half minutes, gave 2
C13_Witness == fn_out # Pending /\ fn_in = 150 /\ fn_out.value = 2

-----------------------------------------------------------------------------
(* get_week_start, under SpecWeekStart *)

\* C19: for every clock reading the result is a Monday at 00:00:00 with
\* week_start <= now < week_start + 7 days; on a Monday it is that same day
\* at midnight.  (Day 5, 6 January 2025, is a Monday.)
C19_MondayMidnight ==
    fn_out # Pending =>
        LET week_start == fn_out.value
        IN  /\ week_start.sec = 0
            /\ (week_start.ord - 5) % 7 = 0
            /\ week_start.ord <= now.ord
            /\ now.ord < week_start.ord + 7
            /\ (now.ord - 5) % 7 = 0 => week_start.ord = now.ord

\* called on Sunday 12 January 2025 at 23:59:59: Monday 6 January
C19_Witness ==
    /\ fn_out # Pending
    /\ now = [ord |-> 11, sec |-> 86399]
    /\ fn_out.value = [ord |-> 5, sec |-> 0]

\* C12: calculate_progress_percentage, applied to the weekly miles and to a
\* target that get_weekly_target returns from a schedule, returns an integer
\* in 0..100, and 0 when the target is 0.
C12_ProgressWithinRange ==
    fn_out # Pending =>
        /\ fn_out.value \in 0..100
        /\ get_weekly_target(0, fn_in.schedule).value = 0 => fn_out.value = 0

\* the whole seconds that a unit (a kilometre, or a mile of 1 / 0.000621371
\* metres) takes at distance_meters in duration_seconds, truncated
SecondsPerUnit(distance_meters, duration_seconds, metric) ==
    LET time == BNMulSmall(BN(IF metric THEN 1000 ELSE 1000000000),
                           duration_seconds)
        dist == BNMulSmall(BN(IF metric THEN 1 ELSE 621371), distance_meters)
    IN  BNToInt(BNDivide(time, dist).q)

\* C14: calculate_pace returns "0:00" when the distance or the duration is
\* zero, and otherwise M:SS with M the truncated whole minutes per unit and SS
\* the truncated remaining seconds, two digits in 00..59.
C14_PaceTruncates ==
    fn_out # Pending =>
        LET d == fn_in.distance_meters
            t == fn_in.duration_seconds
            s == SecondsPerUnit(d, t, fn_in.metric)
        IN  IF d = 0 \/ t = 0 THEN fn_out.value = <<"0", ":", "0", "0">>
            ELSE fn_out.value = DecStr(s \div 60) \o <<":">> \o Pad2(s % 60)

\* a setting that the request's endpoint requires is missing: the event
\* date, the activity source's credentials or, for /running-data, the
\* forecast API key or coordinates
RequiredSettingMissing ==
    \/ EventDateMissing(env.event_date)
    \/ ~env.strava_creds
    \/ req.endpoint = "running" /\ ~env.weather_creds

\* C15: a request answered while a required setting is missing is answered
\* 500 with an error message, no network call having been made; it is never
\* answered 200.
C15_MissingSettingIs500 ==
    (Done /\ RequiredSettingMissing) =>
        /\ resp.status = 500
        /\ resp.error # None
        /\ net = <<>>

\* the WEEKLY_PLAN setting is absent, is not JSON, or is JSON that is not a
\* list of {day, workout} objects
PlanUnusable(plan) ==
    plan.kind # "list" \/ FirstBadPlanItem(plan.items, 1) # 0

\* C16: /running-data with an absent or malformed weekly plan answers 200
\* with weekly_plan = [], has_weekly_plan = false and the weekly_miles,
\* target_miles and progress_percentage stats.
C16_BadPlanIsEmptyPlan ==
    (Done /\ req.endpoint = "running" /\ PlanUnusable(env.plan)) =>
        /\ resp.status = 200
        /\ resp.body.kind = "dashboard"
        /\ resp.body.weekly_plan = <<>>
        /\ ~resp.body.has_weekly_plan
        /\ resp.body.target_miles = locals.target_miles
        /\ resp.body.progress_percentage \in 0..100

\* the scenario of C18: the feed holds one Run of 8047 m and 3000 s on the
\* Monday of the current week, the forecast payload holds that date with a
\* morning temperature of 10.0 and pop 0.2, the plan is Monday: Easy 5mi and
\* the target is 25.0 miles
C18_Given ==
    /\ Done /\ req.endpoint = "running"
    /\ ret.feed = <<Activity("Run", 8047, 3000, Jan(6), 7)>>
    /\ ToOrdinal(Jan(6)) = get_week_start(now).ord
    /\ data = <<ForecastDay(Noon(Jan(6)), 100, 200)>>
    /\ env.plan = Plan("list", <<PlanEntry("Monday", "Easy 5mi")>>)
    /\ locals.target_miles = 250

\* C18: in that scenario the response is 200 with weekly_miles 5.0,
\* progress_percentage 20 and exactly one day entry, Monday, completed, with
\* distance_miles 5.0, duration_minutes 50 and a weather block whose
\* precipitation_prob is 20.
C18_DashboardScenario ==
    C18_Given =>
        /\ resp.status = 200
        /\ resp.body.weekly_miles = 50
        /\ resp.body.target_miles = 250
        /\ resp.body.progress_percentage = 20
        /\ Len(resp.body.weekly_plan) = 1
        /\ LET entry == resp.body.weekly_plan[1]
           IN  /\ entry.day = "Monday"
               /\ entry.workout = "Easy 5mi"
               /\ entry.completed
               /\ entry.has_run
               /\ entry.run.distance_miles = 50
               /\ entry.run.duration_minutes = 50
               /\ entry.has_weather
               /\ entry.weather = [temp_morning |-> 100,
                                   precipitation_prob |-> 20]

\* the scenario, answered on Thursday 9 January 2025
C18_Witness == C18_Given /\ now.ord = 8 /\ resp.status = 200

\* what an answered request leaves behind: a status of 200 with a body, or
\* 500 with an error field and, for an unexpected exception, details
Answered ==
    /\ resp.status \in {200, 500}
    /\ resp.status = 200 => resp.body # NoBody /\ resp.error = None
    /\ resp.status = 500 =>
          /\ resp.error # None
          /\ resp.error = "Internal server error" => resp.details # None

\* the steps of a request other than RunningWeather, whose only guard is
\* pc = "weather"
StepsBeforeWeather ==
    \/ ReceiveRunning
    \/ \E param \in MainDaysParams : ReceiveNutrition(param)
    \/ LazyRefresh \/ FirstGet \/ RefreshAfter401 \/ RetryGet
    \/ RunningFetched \/ NutritionFetched

\* a bound on the steps a request still has to take
StepsLeft ==
    LET handler == CASE pc = "idle" -> 3 [] pc = "strava" -> 2
                     [] pc = "weather" -> 1 [] OTHER -> 0
        fetch == CASE cpc = "refresh" -> 5 [] cpc = "get" -> 4
                   [] cpc = "refresh401" -> 3 [] cpc = "retry" -> 2
                   [] cpc \in {"returned", "raised"} -> 1 [] OTHER -> 0
    IN  10 * handler + fetch

\* C20: every request to either endpoint, whatever the configuration, the
\* upstream answers and their failures, ends with one response of status 200
\* or 500: the handler is never left by an exception, an unanswered request
\* always has a next step and every step brings the response nearer, the
\* response once given is never replaced, and every 500 carries an error
\* field, with details for an unexpected exception.
C20_OneResponse ==
    /\ [](pc \in {"idle", "strava", "weather", "done"})
    /\ [](IF Done THEN Answered
          ELSE resp = NoResp /\ (pc = "weather" \/ ENABLED StepsBeforeWeather))
    /\ [][StepsLeft' < StepsLeft]_vars
    /\ [][Done => resp' = resp /\ pc' = pc]_vars

\* /running-data answered 500 for an exception that no inner handler caught
C20_Witness ==
    /\ Done /\ req.endpoint = "running"
    /\ resp.status = 500
    /\ resp.error = "Internal server error"
    /\ resp.details = "TypeError"

\* the miles of every activity of type Run in a feed, each converted on its
\* own, added up (in tenths)
RECURSIVE RunMilesOf(_)
RunMilesOf(feed) ==
    IF feed = <<>> THEN 0
    ELSE (IF Head(feed).type = "Run" THEN meters_to_miles(Head(feed).distance)
          ELSE 0) + RunMilesOf(Tail(feed))

\* /running-data has answered 200
Dashboard == Done /\ req.endpoint = "running" /\ resp.status = 200

\* C21: the weekly_miles of a dashboard is the sum, over every Run of the
\* fetched feed, of that run's miles rounded to one decimal: runs that share
\* a date and runs on days without a plan entry count, whatever the plan.
C21_WeeklyMilesSumsEveryRun ==
    Dashboard => resp.body.weekly_miles = RunMilesOf(ret.feed)

\* two runs on Wednesday 8 January, the plan naming Monday only: 1.0 + 2.0
\* the calendar date line 130 gave the i-th entry of the plan, and the fetched
\* runs that started on a date
EntryDate(i) ==
    StrfDate(get_week_start(now).ord + DayIndex(locals.weekly_plan.items[i].day))
RunsOn(date) == {j \in 1..Len(runs) : runs[j].start_date.date = date}
Last(S) == CHOOSE j \in S : \A k \in S : k <= j

\* C22: when several fetched runs started on the date of a DayEntry, the entry
\* shows the distance, the duration and the pace of the last of them in the
\* order of the feed
C22_LastRunOfDateShown ==
    Dashboard =>
        \A i \in 1..Len(resp.body.weekly_plan) :
            Cardinality(RunsOn(EntryDate(i))) > 1 =>
                LET run == runs[Last(RunsOn(EntryDate(i)))]
                    entry == resp.body.weekly_plan[i]
                IN  /\ entry.completed /\ entry.has_run
                    /\ entry.run.distance_miles = meters_to_miles(run.distance)
                    /\ entry.run.duration_minutes =
                           seconds_to_minutes(run.moving_time)
                    /\ entry.run.pace_per_mile =
                           calculate_pace(run.distance, run.moving_time, FALSE)

\* two runs on Wednesday 8 January, 1.0 mi in 10:00 and then 2.0 mi in 21:30:
\* Wednesday shows 2.0 mi, 22 minutes, 10:45
C22_Witness ==
    /\ Dashboard
    /\ \E i \in 1..Len(resp.body.weekly_plan) :
           /\ resp.body.weekly_plan[i].day = "Wednesday"
           /\ RunsOn(EntryDate(i)) = {1, 2}
           /\ runs[1].distance = 1609 /\ runs[2].distance = 3218
           /\ resp.body.weekly_plan[i].run =
                  [distance_miles |-> 20, duration_minutes |-> 22,
                   pace_per_mile |-> <<"1", "0", ":", "4", "5">>]

\* C23: in a dashboard response the list has one DayEntry per entry of the
\* plan, in the plan's order; has_weekly_plan says that the list is not empty;
\* an entry is completed iff a fetched run started on its date, carries the
\* run's metrics iff it is completed, and carries a weather block iff the
\* forecast map has its date
C23_EntriesFollowPlan ==
    Dashboard =>
        LET plan == get_weekly_plan(env.plan).items
            out  == resp.body.weekly_plan
        IN  /\ Len(out) = Len(plan)
            /\ resp.body.has_weekly_plan <=> out # <<>>
            /\ \A i \in 1..Len(out) :
                   /\ out[i].day = plan[i].day
                   /\ out[i].workout = plan[i].workout
                   /\ out[i].completed <=> RunsOn(EntryDate(i)) # {}
                   /\ out[i].has_run <=> out[i].completed
                   /\ out[i].has_weather <=>
                          \E k \in 1..Len(data) :
                              StrfDate(data[k].dt \div 86400) = EntryDate(i)

\* Tuesday, Funday, Wednesday with runs on Wednesday and a forecast for Monday
\* to Wednesday: Tuesday has weather and no run, Wednesday has both
C23_Witness ==
    /\ Dashboard
    /\ Len(resp.body.weekly_plan) = 3
    /\ resp.body.has_weekly_plan
    /\ ~resp.body.weekly_plan[1].completed
    /\ resp.body.weekly_plan[1].has_weather
    /\ resp.body.weekly_plan[3].completed
    /\ resp.body.weekly_plan[3].has_weather

\* C24: an entry of the plan whose day is no day of the week keeps its name and
\* is completed, and carries the run and the weather, as this week's Monday
\* date has them
C24_UnknownDayIsMonday ==
    Dashboard =>
        \A i \in 1..Len(resp.body.weekly_plan) :
            LET entry  == resp.body.weekly_plan[i]
                given  == get_weekly_plan(env.plan).items[i]
                monday == StrfDate(get_week_start(now).ord)
            IN  (\A n \in 1..Len(day_names) : given.day # day_names[n]) =>
                    /\ entry.day = given.day
                    /\ entry.completed <=> RunsOn(monday) # {}
                    /\ entry.completed =>
                           entry.run.distance_miles =
                               meters_to_miles(runs[Last(RunsOn(monday))].distance)
                    /\ entry.has_run <=> entry.completed
                    /\ entry.has_weather <=> DictHas(weather_by_date, monday)
                    /\ entry.has_weather =>
                           entry.weather.temp_morning =
                               weather_by_date[monday].temp_morning

\* "Funday" with the 5.0 mile run and the forecast of Monday 6 January
C24_Witness ==
    /\ Dashboard
    /\ \E i \in 1..Len(resp.body.weekly_plan) :
           /\ resp.body.weekly_plan[i].day = "Funday"
           /\ resp.body.weekly_plan[i].completed
           /\ resp.body.weekly_plan[i].run.distance_miles = 50
           /\ resp.body.weekly_plan[i].has_weather
           /\ resp.body.weekly_plan[i].weather.temp_morning = 100

-----------------------------------------------------------------------------
(* Token ordering of StravaClient, under SpecClient *)

\* the access token the client holds after the first n exchanges: that of the
\* last refresh among them that was answered 200, or none
StoredAfter(n) ==
    LET stored == {j \in 1..n : net[j].kind = "token" /\ ~Failed(net[j].answer)}
    IN  IF stored = {} THEN NoToken ELSE net[Last(stored)].token

\* the exchanges of the call in progress, as positions of net
CallSpan == (call.start + 1)..Len(net)

\* C28 as amended: every GET carries the token of the last successful refresh
\* before it, and the client holds that of the last successful refresh; a call
\* that begins without a stored token (the first, or one after refreshes that
\* all failed) refreshes before its first GET, a call that begins with one
\* sends the GET at once; any other refresh directly follows a GET answered
\* 401; a failed refresh ends the call with an error and nothing is sent after
\* it; the GET after a 401 carries the token that refresh returned, be it a
\* new one or the rejected one again
C28_TokenOrdering ==
    /\ client.access_token = StoredAfter(Len(net))
    /\ \A i \in 1..Len(net) :
           net[i].kind = "activities" =>
               net[i].token # NoToken /\ net[i].token = StoredAfter(i - 1)
    /\ \A i \in CallSpan :
           /\ i = call.start + 1 =>
                  (net[i].kind = "token" <=> StoredAfter(call.start) = NoToken)
           /\ (i > call.start + 1 /\ net[i].kind = "token") =>
                  net[i - 1].kind = "activities" /\ net[i - 1].answer = "401"
           /\ (net[i].kind = "token" /\ Failed(net[i].answer)) =>
                  i = Len(net) /\ cpc = "raised"
           /\ (i > call.start + 1 /\ net[i].kind = "activities") =>
                  net[i - 1].kind = "token" /\ ~Failed(net[i - 1].answer)

\* C28 as stated: as C28_TokenOrdering, and a call after the first refreshes
\* only after a GET answered 401, and the GET reissued after a 401 never
\* carries the rejected token
C28_AsStated ==
    /\ C28_TokenOrdering
    /\ \A i \in CallSpan :
           /\ (calls > 1 /\ net[i].kind = "token") =>
                  /\ i > call.start + 1
                  /\ net[i - 1].kind = "activities" /\ net[i - 1].answer = "401"
           /\ (i > call.start + 2 /\ net[i].kind = "activities"
                 /\ net[i - 2].kind = "activities") =>
                  net[i].token # net[i - 2].token

\* a second call on the client that reuses the stored token, is answered 401,
\* refreshes and reissues the GET with the new token
C28_Witness ==
    /\ calls = 2 /\ cpc = "returned"
    /\ Len(net) = call.start + 3
    /\ net[call.start + 1].kind = "activities"
    /\ net[call.start + 1].token = StoredAfter(call.start)
    /\ net[call.start + 1].answer = "401"
    /\ net[call.start + 2].kind = "token"
    /\ net[call.start + 3].kind = "activities"
    /\ net[call.start + 3].token = net[call.start + 2].token
    /\ net[call.start + 3].token # net[call.start + 1].token

-----------------------------------------------------------------------------
(* The rollups of /nutrition-data, under SpecNutrition *)

\* the average of a field over the activities that report it (the key is there
\* and its value is a number), None when none does; in units of 1/scale
AverageOverReporting(activities, key, scale) ==
    LET reporting == SelectSeq(activities, LAMBDA a : Get(a, key).t = "num")
        RECURSIVE Sum(_)
        Sum(list) == IF list = <<>> THEN 0
                     ELSE Get(Head(list), key).n + Sum(Tail(list))
    IN  IF reporting = <<>> THEN JNull
        ELSE JNum(RoundHalfEven(scale * Sum(reporting), Len(reporting)))

\* C25: each of the three averages is taken over exactly the activities that
\* report the field, and is None iff none reports it
C25_AveragesOverReporting ==
    fn_out # Pending =>
        /\ fn_out.value.average_heartrate =
               AverageOverReporting(fn_in, "average_heartrate", 10)
        /\ fn_out.value.average_calories_per_activity =
               AverageOverReporting(fn_in, "calories", 1)
        /\ fn_out.value.average_suffer_score =
               AverageOverReporting(fn_in, "suffer_score", 10)

\* C26: average_temp_fahrenheit is a number exactly when the activity has a
\* Celsius temperature, and is then C * 9/5 + 32 to one decimal; the two pace
\* fields are there exactly when the distance is positive
C26_FahrenheitWhenCelsius ==
    fn_out # Pending =>
        \A i \in 1..Len(fn_in) :
            LET celsius == Get(fn_in[i], "average_temp")
                out == fn_out.value.activities[i]
            IN  /\ out.average_temp_fahrenheit.t = "num" <=> celsius.t = "num"
                /\ celsius.t = "num" =>
                       out.average_temp_fahrenheit = JNum(18 * celsius.n + 320)
                /\ out.average_pace_min_per_km.present <=> fn_in[i].distance > 0
                /\ out.average_pace_min_per_mile.present <=>
                       fn_in[i].distance > 0

\* C27: in a dashboard response the week start given to get_weekly_runs
\* (line 58) is the week start the plan's day names were mapped from (line 125,
\* the clock as it was read then)
C27_OneWeekStart ==
    Dashboard => locals.week_start = get_week_start(now)

C21_Witness ==
    /\ Dashboard
    /\ Len(runs) = 2 /\ runs[1].start_date.date = runs[2].start_date.date
    /\ env.plan = Plan("list", <<PlanEntry("Monday", "Easy 5mi")>>)
    /\ resp.body.weekly_miles = 30

=============================================================================
